---- MODULE Spec2Model ----
(***************************************************************************)
(* A model of the Anthropic client of langchaingo                          *)
(* (llms/anthropic/internal/anthropicclient/anthropicclient.go):           *)
(* construction of the Client, validation of tools and tool choice in      *)
(* CreateMessage, the target URL and the headers of do / setHeaders, and   *)
(* decodeError's mapping of a failed response to an error value.           *)
(*                                                                         *)
(* Strings are TLA+ strings; fmt.Sprintf is string concatenation and %d is *)
(* ToString.  A response body is a sequence of JSON tokens standing for    *)
(* the bytes read (white space between tokens is not represented).         *)
(*                                                                         *)
(* The calls are made by goroutines that share the clients.  A call is a   *)
(* sequence of steps cut at its accesses to what is shared: the read of    *)
(* c.baseURL in do's test (line 253), the write of it (line 254), the read *)
(* of it for the URL (line 257) followed by the hand-over of the request   *)
(* to the Doer (line 271), and the Doer's answer, on which the call        *)
(* returns.  Nothing orders the steps of two goroutines, and the Client    *)
(* has no lock: a read of c.baseURL made while another goroutine is about  *)
(* to write it is a data race, and it sees each word of the string old or  *)
(* new: the old value, the new value or a torn string header.              *)
(*                                                                         *)
(* The fields a Client gets from New and its options are assigned there    *)
(* only: the options are the arguments of New, and the methods assign no   *)
(* field but baseURL.                                                      *)
(***************************************************************************)
EXTENDS Integers, Sequences, FiniteSets, TLC

VARIABLES
    clients,      \* client id -> the Client struct (anthropicclient.go:25-37)
    constructed,  \* client id -> the Client as New returned it (history)
    sent,         \* client id -> the request its Doer received last
    calls         \* goroutine -> the call it is in, or what its last call returned

vars == <<clients, constructed, sent, calls>>

----------------------------------------------------------------------------
(* Program constants                                                       *)

DefaultBaseURL == "https://api.anthropic.com/v1"
DefaultAnthropicVersion == "2023-06-01"

----------------------------------------------------------------------------
(* Input domains                                                           *)

Tokens == {"sk-ant-key", "ya29.token"}
Models == {"claude-3-haiku", "claude-3-opus"}
\* Base URLs given to New: none, a proxy with and without a trailing slash,
\* and one that url.Parse rejects (no scheme before the colon).
BaseURLStems == {"", "https://proxy.test/v1", ":"}
BaseURLArgs == BaseURLStems \cup {"https://proxy.test/v1/"}
ProjectIDs == {"", "my-project"}
Locations == {"", "us-central1"}
Versions == {"", "2023-01-01"}
Paths == {"/messages", "/complete"}
Payloads == {"{}"}
TheDoer == "doer"

----------------------------------------------------------------------------
(* Construction: New and its options                                       *)

\* strings.TrimSuffix(s, suffix) for the strings New is given here: s is
\* stem \o suffix for at most one stem, and is returned whole otherwise.
TrimSuffix(s, suffix) ==
    IF \E t \in BaseURLStems : t \o suffix = s
    THEN CHOOSE t \in BaseURLStems : t \o suffix = s
    ELSE s

WithVertexProjectID(projectID) == [opt |-> "WithVertexProjectID", val |-> projectID]
WithVertexLocation(location) == [opt |-> "WithVertexLocation", val |-> location]
WithAnthropicVersion(version) == [opt |-> "WithAnthropicVersion", val |-> version]
WithHTTPClient(client) == [opt |-> "WithHTTPClient", val |-> client]
WithLegacyTextCompletionsAPI(val) == [opt |-> "WithLegacyTextCompletionsAPI", val |-> val]

\* opt(c): the option's closure applied to the client.
ApplyOption(c, o) ==
    CASE o.opt = "WithVertexProjectID" -> [c EXCEPT !.vertexProjectID = o.val]
      [] o.opt = "WithVertexLocation" -> [c EXCEPT !.vertexLocation = o.val]
      [] o.opt = "WithAnthropicVersion" -> [c EXCEPT !.anthropicVersion = o.val]
      [] o.opt = "WithHTTPClient" -> [c EXCEPT !.httpClient = o.val]
      [] o.opt = "WithLegacyTextCompletionsAPI" ->
            [c EXCEPT !.UseLegacyTextCompletionsAPI = o.val]

RECURSIVE ApplyOptions(_, _)
ApplyOptions(c, opts) ==
    IF opts = <<>> THEN c
    ELSE ApplyOptions(ApplyOption(c, Head(opts)), Tail(opts))

New(token, model, baseURL, opts) ==
    ApplyOptions(
        [token |-> token,
         Model |-> model,
         baseURL |-> TrimSuffix(baseURL, "/"),
         vertexProjectID |-> "",
         vertexLocation |-> "",
         httpClient |-> "",
         anthropicVersion |-> "",
         UseLegacyTextCompletionsAPI |-> FALSE],
        opts)

\* The clients the model constructs: New called with every combination of
\* the input domains, the options in the order of the example program, the
\* messages API and one Doer.
NewClient(token, model, baseURL, projectID, location, version) ==
    New(token, model, baseURL,
        <<WithAnthropicVersion(version), WithVertexProjectID(projectID),
          WithVertexLocation(location), WithHTTPClient(TheDoer),
          WithLegacyTextCompletionsAPI(FALSE)>>)

Constructible ==
    {NewClient(t, m, b, p, l, v) :
        t \in Tokens, m \in Models, b \in BaseURLArgs,
        p \in ProjectIDs, l \in Locations, v \in Versions}

----------------------------------------------------------------------------
(* HTTP requests and headers                                               *)

\* textproto.CanonicalMIMEHeaderKey on the header names the client uses.
CanonicalHeaderKey(k) ==
    CASE k = "x-api-key" -> "X-Api-Key"
      [] k = "anthropic-version" -> "Anthropic-Version"
      [] OTHER -> k

NoHeader == [k \in {} |-> ""]

\* http.Header.Set
HeaderSet(h, k, v) ==
    [x \in (DOMAIN h) \cup {CanonicalHeaderKey(k)} |->
        IF x = CanonicalHeaderKey(k) THEN v ELSE h[x]]

HeaderHas(h, k) == CanonicalHeaderKey(k) \in DOMAIN h

\* http.Header.Get: "" when the header is not set.
HeaderGet(h, k) == IF HeaderHas(h, k) THEN h[CanonicalHeaderKey(k)] ELSE ""

\* setHeaders with the authentication header chosen by the API version
\* instead of the project.
setHeadersAuthByVersion(c, header) ==
    LET h1 == HeaderSet(header, "Content-Type", "application/json")
        h2 == IF c.anthropicVersion # ""
              THEN HeaderSet(h1, "Authorization", "Bearer " \o c.token)
              ELSE HeaderSet(h1, "x-api-key", c.token)
    IN  IF c.anthropicVersion # ""
        THEN HeaderSet(h2, "anthropic-version", c.anthropicVersion)
        ELSE IF c.vertexProjectID # ""
             THEN HeaderSet(h2, "anthropic-version", "vertex-2023-10-16")
             ELSE HeaderSet(h2, "anthropic-version", "2023-06-01")

\* setHeaders with the API key sent in both modes.
setHeadersKeyAlways(c, header) ==
    LET h1 == HeaderSet(header, "Content-Type", "application/json")
        h2 == IF c.vertexProjectID # ""
              THEN HeaderSet(HeaderSet(h1, "x-api-key", c.token),
                             "Authorization", "Bearer " \o c.token)
              ELSE HeaderSet(h1, "x-api-key", c.token)
    IN  IF c.anthropicVersion # ""
        THEN HeaderSet(h2, "anthropic-version", c.anthropicVersion)
        ELSE IF c.vertexProjectID # ""
             THEN HeaderSet(h2, "anthropic-version", "vertex-2023-10-16")
             ELSE HeaderSet(h2, "anthropic-version", "2023-06-01")

\* setHeaders with the mode's default taking precedence over the
\* configured API version.
setHeadersModeFirst(c, header) ==
    LET h1 == HeaderSet(header, "Content-Type", "application/json")
        h2 == IF c.vertexProjectID # ""
              THEN HeaderSet(h1, "Authorization", "Bearer " \o c.token)
              ELSE HeaderSet(h1, "x-api-key", c.token)
    IN  IF c.vertexProjectID # ""
        THEN HeaderSet(h2, "anthropic-version", "vertex-2023-10-16")
        ELSE IF c.anthropicVersion # ""
             THEN HeaderSet(h2, "anthropic-version", c.anthropicVersion)
             ELSE HeaderSet(h2, "anthropic-version", "2023-06-01")

setHeaders(c, header) ==
    LET h1 == HeaderSet(header, "Content-Type", "application/json")
        h2 == IF c.vertexProjectID # ""
              THEN HeaderSet(h1, "Authorization", "Bearer " \o c.token)
              ELSE HeaderSet(h1, "x-api-key", c.token)
    IN  IF c.anthropicVersion # ""
        THEN HeaderSet(h2, "anthropic-version", c.anthropicVersion)
        ELSE IF c.vertexProjectID # ""
             THEN HeaderSet(h2, "anthropic-version", "vertex-2023-10-16")
             ELSE HeaderSet(h2, "anthropic-version", "2023-06-01")

----------------------------------------------------------------------------
(* Error values                                                            *)

Nil == [kind |-> "nil"]

\* errors.New(text)
ErrorsNew(text) == [kind |-> "errorString", msg |-> text]

\* fmt.Errorf("<prefix>: %w", err)
Wrap(prefix, err) == [kind |-> "wrapError", msg |-> prefix \o ": " \o err.msg, wraps |-> err]

\* What the error's Error() method returns.
ErrorText(err) == IF err.kind = "LLMError" THEN err.Message ELSE err.msg

----------------------------------------------------------------------------
(* Transport: do                                                           *)

\* The URLs url.Parse rejects among those the model builds: the ones that
\* start with a colon ("missing protocol scheme").
MalformedURLs == {":" \o p : p \in Paths}

\* The error of http.NewRequestWithContext(ctx, http.MethodPost, url, body).
NewRequestError(url) ==
    IF url \in MalformedURLs
    THEN ErrorsNew("parse \"" \o url \o "\": missing protocol scheme")
    ELSE Nil

NoResponse == [StatusCode |-> 0, Body |-> <<>>, readErr |-> FALSE]

\* The cloud predict endpoint with the project and the region exchanged in
\* the argument list of the format.
VertexURLSwapped(c) ==
    "https://" \o c.vertexProjectID \o "-aiplatform.googleapis." \o
    "com/v1/projects/" \o c.vertexLocation \o "/locations/" \o c.vertexLocation \o
    "/publishers/anthropic/models/" \o c.Model \o ":streamRawPredict"

\* The cloud predict endpoint of the else branch of do.
VertexURL(c) ==
    "https://" \o c.vertexLocation \o "-aiplatform.googleapis." \o
    "com/v1/projects/" \o c.vertexProjectID \o "/locations/" \o c.vertexLocation \o
    "/publishers/anthropic/models/" \o c.Model \o ":streamRawPredict"


\* The test of do that selects the branch which uses c.baseURL.
DirectMode(c) == c.vertexProjectID = ""

\* What a racing read of the string c.baseURL can yield besides the two
\* values: the length of the new value with the data pointer of the empty
\* one.  It is not empty, and copying from it faults.
Torn == "<nil data pointer, length 28>"

\* http.NewRequestWithContext(ctx, http.MethodPost, url, payloadBytes)
\* followed by c.setHeaders(req): the request, or the error do returns.
doRequest(c, url, payloadBytes) ==
    LET reqErr == NewRequestError(url)
    IN  IF reqErr.kind # "nil"
        THEN [req |-> <<>>, err |-> Wrap("create request", reqErr)]
        ELSE [req |-> <<[Method |-> "POST", URL |-> url,
                         Header |-> setHeaders(c, NoHeader), Body |-> payloadBytes]>>,
              err |-> Nil]

\* The return of do once c.httpClient.Do has answered `outcome` ([err, resp]).
doReturn(outcome) ==
    IF outcome.err.kind # "nil"
    THEN [resp |-> NoResponse, err |-> Wrap("send request", outcome.err)]
    ELSE [resp |-> outcome.resp, err |-> Nil]

----------------------------------------------------------------------------
(* JSON: the bytes of a body as tokens, and json.Unmarshal into the        *)
(* errorMessage struct                                                     *)

P(t) == [t |-> t, v |-> ""]           \* punctuation and the literals null, true, false
Str(s) == [t |-> "str", v |-> s]      \* a string literal, v its decoded value
Num(n) == [t |-> "num", v |-> n]      \* a number literal
Junk(text) == [t |-> "bad", v |-> text]  \* bytes that begin no JSON token

ParseFail == [ok |-> FALSE, v |-> [k |-> "null"], next |-> 0]

RECURSIVE ParseValue(_, _), ParseMembers(_, _, _), ParseElements(_, _, _)

\* The JSON value that starts at token i, and the index after it.
ParseValue(toks, i) ==
    IF i > Len(toks) THEN ParseFail
    ELSE LET t == toks[i].t
         IN  CASE t = "str" -> [ok |-> TRUE, v |-> [k |-> "str", s |-> toks[i].v], next |-> i + 1]
               [] t = "num" -> [ok |-> TRUE, v |-> [k |-> "num"], next |-> i + 1]
               [] t = "null" -> [ok |-> TRUE, v |-> [k |-> "null"], next |-> i + 1]
               [] t \in {"true", "false"} -> [ok |-> TRUE, v |-> [k |-> "bool"], next |-> i + 1]
               [] t = "{" ->
                    IF i + 1 <= Len(toks) /\ toks[i + 1].t = "}"
                    THEN [ok |-> TRUE, v |-> [k |-> "obj", members |-> <<>>], next |-> i + 2]
                    ELSE ParseMembers(toks, i + 1, <<>>)
               [] t = "[" ->
                    IF i + 1 <= Len(toks) /\ toks[i + 1].t = "]"
                    THEN [ok |-> TRUE, v |-> [k |-> "arr", items |-> <<>>], next |-> i + 2]
                    ELSE ParseElements(toks, i + 1, <<>>)
               [] OTHER -> ParseFail

\* key : value { , key : value } "}" from token i on.
ParseMembers(toks, i, acc) ==
    IF i + 1 > Len(toks) \/ toks[i].t # "str" \/ toks[i + 1].t # ":" THEN ParseFail
    ELSE LET r == ParseValue(toks, i + 2)
             got == Append(acc, [key |-> toks[i].v, val |-> r.v])
         IN  IF ~r.ok \/ r.next > Len(toks) THEN ParseFail
             ELSE IF toks[r.next].t = "}"
                  THEN [ok |-> TRUE, v |-> [k |-> "obj", members |-> got], next |-> r.next + 1]
             ELSE IF toks[r.next].t = ","
                  THEN ParseMembers(toks, r.next + 1, got)
             ELSE ParseFail

\* value { , value } "]" from token i on.
ParseElements(toks, i, acc) ==
    LET r == ParseValue(toks, i)
        got == Append(acc, r.v)
    IN  IF ~r.ok \/ r.next > Len(toks) THEN ParseFail
        ELSE IF toks[r.next].t = "]"
             THEN [ok |-> TRUE, v |-> [k |-> "arr", items |-> got], next |-> r.next + 1]
        ELSE IF toks[r.next].t = ","
             THEN ParseElements(toks, r.next + 1, got)
        ELSE ParseFail

\* The scanner's verdict (checkValid): one JSON value and nothing after it.
ValidJSON(data) ==
    LET r == ParseValue(data, 1) IN r.ok /\ r.next = Len(data) + 1

\* Object keys match struct fields by exact name, else case-insensitively.
FoldKey(key) ==
    CASE key \in {"Error", "ERROR"} -> "error"
      [] key \in {"Message", "MESSAGE"} -> "message"
      [] key \in {"Type", "TYPE"} -> "type"
      [] OTHER -> key

\* A JSON value decoded into a string field: null leaves it, a string sets
\* it, anything else is an UnmarshalTypeError.
DecodeString(cur, v) ==
    CASE v.k = "null" -> [val |-> cur, err |-> FALSE]
      [] v.k = "str" -> [val |-> v.s, err |-> FALSE]
      [] OTHER -> [val |-> cur, err |-> TRUE]

\* The members of the inner object decoded, in order, into the struct
\* {Message string `json:"message"`; Type string `json:"type"`}.
RECURSIVE DecodeErrorFields(_, _)
DecodeErrorFields(cur, members) ==
    IF members = <<>> THEN [val |-> cur, err |-> FALSE]
    ELSE LET m == Head(members)
             f == FoldKey(m.key)
             d == DecodeString(IF f = "message" THEN cur.Message ELSE cur.Type, m.val)
             step == IF f = "message" THEN [val |-> [cur EXCEPT !.Message = d.val], err |-> d.err]
                     ELSE IF f = "type" THEN [val |-> [cur EXCEPT !.Type = d.val], err |-> d.err]
                     ELSE [val |-> cur, err |-> FALSE]
             rest == DecodeErrorFields(step.val, Tail(members))
         IN  [val |-> rest.val, err |-> step.err \/ rest.err]

\* A JSON value decoded into the inner struct.
DecodeErrorStruct(cur, v) ==
    CASE v.k = "null" -> [val |-> cur, err |-> FALSE]
      [] v.k = "obj" -> DecodeErrorFields(cur, v.members)
      [] OTHER -> [val |-> cur, err |-> TRUE]

\* The members of the outer object decoded into errorMessage.
RECURSIVE DecodeEnvelopeFields(_, _)
DecodeEnvelopeFields(cur, members) ==
    IF members = <<>> THEN [val |-> cur, err |-> FALSE]
    ELSE LET m == Head(members)
             step == IF FoldKey(m.key) = "error"
                     THEN LET d == DecodeErrorStruct(cur.Error, m.val)
                          IN  [val |-> [cur EXCEPT !.Error = d.val], err |-> d.err]
                     ELSE [val |-> cur, err |-> FALSE]
             rest == DecodeEnvelopeFields(step.val, Tail(members))
         IN  [val |-> rest.val, err |-> step.err \/ rest.err]

\* var errResp errorMessage
errorMessage == [Error |-> [Message |-> "", Type |-> ""]]

\* json.Unmarshal(data, &errResp): the struct as it is left, and whether an
\* error is returned (a syntax error, or a value of the wrong type).
Unmarshal(data) ==
    IF ~ValidJSON(data) THEN [val |-> errorMessage, err |-> TRUE]
    ELSE LET v == ParseValue(data, 1).v
         IN  CASE v.k = "null" -> [val |-> errorMessage, err |-> FALSE]
               [] v.k = "obj" -> DecodeEnvelopeFields(errorMessage, v.members)
               [] OTHER -> [val |-> errorMessage, err |-> TRUE]

----------------------------------------------------------------------------
(* Error decoding: decodeError                                             *)

\* The error io.ReadAll returns when the body cannot be read to its end.
ReadError == ErrorsNew("unexpected EOF")

\* &llms.LLMError{...}
LLMError(message, statusCode, errorType, errorMessageText, rawResponse) ==
    [kind |-> "LLMError", Message |-> message, StatusCode |-> statusCode,
     ErrorType |-> errorType, ErrorMessage |-> errorMessageText,
     RawResponse |-> rawResponse]

\* decodeError with the provider's type and message stored in each other's
\* field.
decodeErrorSwapped(resp) ==
    LET msg == "API returned unexpected status code: " \o ToString(resp.StatusCode)
        u == Unmarshal(resp.Body)
    IN  IF resp.readErr THEN Wrap(msg, ReadError)
        ELSE IF u.err THEN ErrorsNew(msg)
        ELSE LLMError(msg \o ": " \o u.val.Error.Message, resp.StatusCode,
                      u.val.Error.Message, u.val.Error.Type, resp.Body)

\* decodeError with the provider's message left out of the composed one.
decodeErrorBareMessage(resp) ==
    LET msg == "API returned unexpected status code: " \o ToString(resp.StatusCode)
        u == Unmarshal(resp.Body)
    IN  IF resp.readErr THEN Wrap(msg, ReadError)
        ELSE IF u.err THEN ErrorsNew(msg)
        ELSE LLMError(msg, resp.StatusCode,
                      u.val.Error.Type, u.val.Error.Message, resp.Body)

\* decodeError with the error of json.Unmarshal ignored.
decodeErrorUnchecked(resp) ==
    LET msg == "API returned unexpected status code: " \o ToString(resp.StatusCode)
        u == Unmarshal(resp.Body)
    IN  IF resp.readErr THEN Wrap(msg, ReadError)
        ELSE LLMError(msg \o ": " \o u.val.Error.Message, resp.StatusCode,
                      u.val.Error.Type, u.val.Error.Message, resp.Body)

\* c.decodeError(resp)
decodeError(resp) ==
    LET msg == "API returned unexpected status code: " \o ToString(resp.StatusCode)
        u == Unmarshal(resp.Body)
    IN  IF resp.readErr THEN Wrap(msg, ReadError)
        ELSE IF u.err THEN ErrorsNew(msg)
        ELSE LLMError(msg \o ": " \o u.val.Error.Message, resp.StatusCode,
                      u.val.Error.Type, u.val.Error.Message, resp.Body)

----------------------------------------------------------------------------
(* Request building: tools and tool choice                                 *)

\* llms.Tool{Type, Function}; Function is a pointer, isNil when it is nil.
NilFunction == [isNil |-> TRUE, Name |-> "", Description |-> "", Parameters |-> ""]
FunctionDefinition(name) ==
    [isNil |-> FALSE, Name |-> name, Description |-> "about " \o name,
     Parameters |-> "schema of " \o name]
LLMTool(function) == [Type |-> "function", Function |-> function]

\* A value of type any: its dynamic type, and the value under that type.
AnyNil == [dyn |-> "nil", str |-> "", tool |-> LLMTool(NilFunction)]
AnyString(text) == [dyn |-> "string", str |-> text, tool |-> LLMTool(NilFunction)]
AnyTool(tool) == [dyn |-> "llms.Tool", str |-> "", tool |-> tool]
AnyToolPointer(tool) == [dyn |-> "*llms.Tool", str |-> "", tool |-> tool]

NilToolChoice == [isNil |-> TRUE, Type |-> "", Name |-> ""]

\* handleToolChoice without the check of the function pointer.
handleToolChoiceUnchecked(toolChoice) ==
    CASE toolChoice.dyn = "string" ->
            [tc |-> [isNil |-> FALSE, Type |-> toolChoice.str, Name |-> ""], err |-> Nil]
      [] toolChoice.dyn = "llms.Tool" ->
            [tc |-> [isNil |-> FALSE, Type |-> toolChoice.tool.Type,
                     Name |-> toolChoice.tool.Function.Name],
             err |-> Nil]
      [] OTHER -> [tc |-> NilToolChoice, err |-> Nil]

handleToolChoice(toolChoice) ==
    CASE toolChoice.dyn = "string" ->
            [tc |-> [isNil |-> FALSE, Type |-> toolChoice.str, Name |-> ""], err |-> Nil]
      [] toolChoice.dyn = "llms.Tool" ->
            IF toolChoice.tool.Function.isNil
            THEN [tc |-> NilToolChoice, err |-> ErrorsNew("tool choice function is nil")]
            ELSE [tc |-> [isNil |-> FALSE, Type |-> toolChoice.tool.Type,
                          Name |-> toolChoice.tool.Function.Name],
                  err |-> Nil]
      [] OTHER -> [tc |-> NilToolChoice, err |-> Nil]

\* The loop of handleTools from its current entry on.
RECURSIVE handleToolsLoop(_, _)
handleToolsLoop(tools, resultTools) ==
    IF tools = <<>> THEN [tools |-> resultTools, err |-> Nil]
    ELSE IF Head(tools).Function.isNil
         THEN [tools |-> <<>>, err |-> ErrorsNew("tool choice function is nil")]
         ELSE handleToolsLoop(Tail(tools),
                  Append(resultTools,
                         [Name |-> Head(tools).Function.Name,
                          Description |-> Head(tools).Function.Description,
                          InputSchema |-> Head(tools).Function.Parameters]))

\* handleTools with the check made on the first entry only.
handleToolsFirstOnly(tools) ==
    IF tools # <<>> /\ Head(tools).Function.isNil
    THEN [tools |-> <<>>, err |-> ErrorsNew("tool choice function is nil")]
    ELSE [tools |-> [k \in 1..Len(tools) |->
                        [Name |-> tools[k].Function.Name,
                         Description |-> tools[k].Function.Description,
                         InputSchema |-> tools[k].Function.Parameters]],
          err |-> Nil]

handleTools(tools) == handleToolsLoop(tools, <<>>)


----------------------------------------------------------------------------
(* The calls behind CreateMessage and CreateCompletion                     *)

ErrEmptyResponse == ErrorsNew("empty response")

RECURSIVE JoinNames(_)
JoinNames(tools) ==
    IF tools = <<>> THEN ""
    ELSE "\"" \o Head(tools).Name \o "\"" \o
         (IF Len(tools) > 1 THEN "," ELSE "") \o JoinNames(Tail(tools))

\* The serialized payload: the fields of it the model carries.
MarshalPayload(payload) ==
    "{\"model\":\"" \o payload.Model \o "\"" \o
    (IF payload.Tools # <<>> THEN ",\"tools\":[" \o JoinNames(payload.Tools) \o "]" ELSE "") \o
    (IF ~payload.ToolChoice.isNil
     THEN ",\"tool_choice\":\"" \o payload.ToolChoice.Type \o "\"" ELSE "") \o
    "}"

NilResult == [isNil |-> TRUE, body |-> <<>>]

\* createMessage / createCompletion after do has returned d = (resp, err):
\* the error of do, the decoded error of a non-2xx response with
\* decodeError, ErrEmptyResponse for a 2xx response without a body, else
\* the body read.
createCall(d) ==
    IF d.err.kind # "nil"
    THEN [result |-> NilResult, err |-> d.err]
    ELSE IF d.resp.StatusCode < 200 \/ d.resp.StatusCode > 299
    THEN [result |-> NilResult, err |-> decodeError(d.resp)]
    ELSE IF d.resp.Body = <<>>
    THEN [result |-> NilResult, err |-> ErrEmptyResponse]
    ELSE [result |-> [isNil |-> FALSE, body |-> d.resp.Body], err |-> Nil]

NoPayload == [Model |-> "", Tools |-> <<>>, ToolChoice |-> NilToolChoice]

\* c.CreateMessage(ctx, r) up to its call of createMessage: the error it
\* returns and the step that raised it, or the payload it passes on.
CreateMessage(r) ==
    LET tc == handleToolChoice(r.ToolChoice)
        tl == handleTools(r.Tools)
    IN  IF tc.err.kind # "nil"
        THEN [err |-> tc.err, at |-> "handleToolChoice", payload |-> NoPayload]
        ELSE IF tl.err.kind # "nil"
        THEN [err |-> tl.err, at |-> "handleTools", payload |-> NoPayload]
        ELSE [err |-> Nil, at |-> "createMessage",
              payload |-> [Model |-> r.Model, Tools |-> tl.tools, ToolChoice |-> tc.tc]]

\* c.CreateCompletion(ctx, r) up to its call of createCompletion.
CreateCompletion(r) ==
    [err |-> Nil, at |-> "createCompletion",
     payload |-> [Model |-> r.Model, Tools |-> <<>>, ToolChoice |-> NilToolChoice]]

----------------------------------------------------------------------------
(* Inputs of the calls                                                     *)

MaxTools == 2

ToolValues == {LLMTool(NilFunction), LLMTool(FunctionDefinition("search"))}

ToolLists == UNION {[1..n -> ToolValues] : n \in 0..MaxTools}

ToolChoices ==
    {AnyNil, AnyString("auto"), AnyString("none"),
     AnyTool(LLMTool(NilFunction)), AnyTool(LLMTool(FunctionDefinition("search"))),
     AnyToolPointer(LLMTool(NilFunction))}

\* The requests carry the model name the example program configures.
RequestModels == {"claude-3-haiku"}
MessageRequests == [Model : RequestModels, Tools : ToolLists, ToolChoice : ToolChoices]
CompletionRequests == [Model : RequestModels]

\* {"error":{"message":m,"type":t}}
Envelope(m, t) ==
    <<P("{"), Str("error"), P(":"), P("{"), Str("message"), P(":"), Str(m), P(","),
      Str("type"), P(":"), Str(t), P("}"), P("}")>>

\* {"type":"error","error":{"type":t,"message":m}}
TaggedEnvelope(m, t) ==
    <<P("{"), Str("type"), P(":"), Str("error"), P(","), Str("error"), P(":"),
      P("{"), Str("type"), P(":"), Str(t), P(","), Str("message"), P(":"), Str(m),
      P("}"), P("}")>>

ProviderMessages == {"", "rate limited", "Overloaded"}
ProviderTypes == {"", "rate_limit_error", "overloaded_error"}

EnvelopeBodies ==
    {Envelope(m, t) : m \in ProviderMessages, t \in ProviderTypes} \cup
    {TaggedEnvelope(m, t) : m \in ProviderMessages, t \in ProviderTypes}

\* Bodies that are JSON but not the plain envelope.
OtherJSONBodies ==
    {<<P("null")>>,
     <<P("{"), P("}")>>,
     <<P("["), P("]")>>,
     <<P("["), Str("error"), P(","), Num("1"), P("]")>>,
     <<Str("Bad Gateway")>>,
     <<Num("502")>>,
     <<P("{"), Str("error"), P(":"), P("null"), P("}")>>,
     <<P("{"), Str("error"), P(":"), Str("rate limited"), P("}")>>,
     <<P("{"), Str("error"), P(":"), P("{"), Str("message"), P(":"), Num("429"),
       P("}"), P("}")>>,
     <<P("{"), Str("error"), P(":"), P("{"), Str("message"), P(":"), P("null"), P(","),
       Str("type"), P(":"), Str("api_error"), P("}"), P("}")>>,
     <<P("{"), Str("Error"), P(":"), P("{"), Str("MESSAGE"), P(":"), Str("rate limited"),
       P("}"), P("}")>>,
     <<P("{"), Str("error"), P(":"), P("{"), Str("type"), P(":"), Str("api_error"),
       P(","), Str("type"), P(":"), Str("overloaded_error"), P("}"), P("}")>>,
     <<P("{"), Str("message"), P(":"), Str("rate limited"), P("}")>>,
     <<P("{"), Str("detail"), P(":"), P("["), P("{"), Str("loc"), P(":"), P("true"),
       P("}"), P("]"), P("}")>>}

\* Bodies that are not JSON: nothing, HTML, a truncated or unfinished
\* envelope, a second value after the first, a missing colon or comma.
NotJSONBodies ==
    {<<>>,
     <<Junk("<html>Bad Gateway</html>")>>,
     <<P("{"), Str("error"), P(":"), P("{"), Str("message"), P(":"), Str("rate limited")>>,
     <<P("{"), Str("error"), P(":"), P("{"), Str("message"), P(":"), Str("rate limited"),
       P("}")>>,
     <<P("{"), Str("error"), P(":"), P("{"), P("}"), P("}"), P("}")>>,
     <<P("{"), P("}"), P("{"), P("}")>>,
     <<P("{"), Str("error"), P("{"), P("}"), P("}")>>,
     <<P("{"), Str("error"), P(":"), P("{"), Str("message"), P(":"), Str("x"),
       Str("type"), P(":"), Str("y"), P("}"), P("}")>>,
     <<P("{"), Str("error"), P(":"), P("{"), Str("message"), P(":"), Str("x"), P(","),
       P("}"), P("}")>>,
     <<P("["), Num("1"), P(","), P("]")>>,
     <<P("{"), Num("1"), P(":"), Str("x"), P("}")>>}

Bodies == EnvelopeBodies \cup OtherJSONBodies \cup NotJSONBodies

ErrorStatuses == {400, 429, 529}

\* The responses decodeError is given: a body read to its end, or a read
\* that fails.
ErrorResponses ==
    [StatusCode : ErrorStatuses, Body : Bodies, readErr : {FALSE}] \cup
    [StatusCode : ErrorStatuses, Body : {<<>>}, readErr : {TRUE}]

\* What the Doer answers to a request: a transport error, or a response.
TransportError == ErrorsNew("dial tcp: connection refused")

Answer(statusCode, body) ==
    [err |-> Nil, resp |-> [StatusCode |-> statusCode, Body |-> body, readErr |-> FALSE]]

Refused == [err |-> TransportError, resp |-> NoResponse]
Completed == Answer(200, <<P("{"), Str("content"), P(":"), Str("hello"), P("}")>>)

\* The answers to the requests of do called by itself.
DoOutcomes == {Refused, Completed}

\* The answers to the requests of CreateMessage and CreateCompletion.
DoerOutcomes ==
    {Refused, Completed,
     Answer(200, <<>>),
     Answer(429, Envelope("rate limited", "rate_limit_error")),
     Answer(502, <<Junk("<html>Bad Gateway</html>")>>)}

----------------------------------------------------------------------------
(* State machine                                                           *)

Goroutines == {"g1", "g2"}

Idle == [pc |-> "idle"]

InitWith(ids, gs) ==
    /\ clients \in [ids -> Constructible]
    /\ constructed = clients
    /\ sent = [i \in ids |-> <<>>]
    /\ calls = [g \in gs |-> Idle]

\* A nil-pointer fault in one goroutine ends the process.
Crashed == \E g \in DOMAIN calls : calls[g].pc = "fault"

\* Goroutine g is free to make a call.
Ready(g) == ~Crashed /\ calls[g].pc \in {"idle", "returned"}

\* Goroutine g is inside do at the statement pc.
At(g, pc) == ~Crashed /\ calls[g].pc = pc

\* Another goroutine than g is about to execute c.baseURL = DefaultBaseURL
\* on client i.
Writing(g, i) ==
    \E h \in DOMAIN calls \ {g} : calls[h].pc = "write" /\ calls[h].client = i

\* The values a read of clients[i].baseURL by goroutine g can yield (the
\* expression c.baseURL of lines 253 and 257).  A read that races with the
\* write of another goroutine sees each word of the string old or new; a
\* goroutine that has seen the new length (seenSet, the read of line 257
\* after the test of line 253 found the field set) sees the new length
\* again, with the new data pointer or the old nil one.
ReadBaseURL(g, i, seenSet) ==
    IF clients[i].baseURL = "" /\ Writing(g, i)
    THEN IF seenSet THEN {DefaultBaseURL, Torn} ELSE {"", DefaultBaseURL, Torn}
    ELSE {clients[i].baseURL}

\* What the call f returns to its caller when do has returned (resp, err),
\* the Doer having received the requests reqs.
Return(f, reqs, resp, err) ==
    IF f.op = "do"
    THEN [pc |-> "returned", op |-> "do", client |-> f.client, path |-> f.path,
          calls |-> reqs, resp |-> resp, err |-> err]
    ELSE LET ret == createCall([resp |-> resp, err |-> err])
         IN  [pc |-> "returned", op |-> f.op, client |-> f.client, r |-> f.r,
              calls |-> reqs, result |-> ret.result, err |-> ret.err, at |-> f.at]

\* Lines 264-271 of do in goroutine g for the call f: the request to url is
\* made, given its headers and handed to the Doer; a URL that does not
\* parse ends the call.
Send(g, f, url) ==
    \E d \in {doRequest(clients[f.client], url, f.payload)} :
        IF d.err.kind # "nil"
        THEN /\ calls' = [calls EXCEPT ![g] = Return(f, <<>>, NoResponse, d.err)]
             /\ UNCHANGED <<clients, constructed, sent>>
        ELSE /\ calls' = [calls EXCEPT ![g] = [f EXCEPT !.pc = "wait", !.req = d.req]]
             /\ sent' = [sent EXCEPT ![f.client] = <<[path |-> f.path, req |-> d.req[1]]>>]
             /\ UNCHANGED <<clients, constructed>>

\* Goroutine g enters do for the call f (lines 250-253).  In delegated mode
\* the URL is the predict endpoint.  In direct mode c.baseURL is read: empty,
\* the call goes on to write it; as constructed and not empty, it is read
\* again for the URL; not empty only by a racing read, the call skips the
\* write and reads it again later.
Enter(g, f) ==
    LET c == clients[f.client]
    IN  IF ~DirectMode(c)
        THEN Send(g, f, VertexURL(c))
        ELSE \E v \in ReadBaseURL(g, f.client, FALSE) :
                IF v = ""
                THEN /\ calls' = [calls EXCEPT ![g] = [f EXCEPT !.pc = "write"]]
                     /\ UNCHANGED <<clients, constructed, sent>>
                ELSE IF v = c.baseURL
                THEN Send(g, f, c.baseURL \o f.path)
                ELSE /\ calls' = [calls EXCEPT ![g] = [f EXCEPT !.pc = "concat"]]
                     /\ UNCHANGED <<clients, constructed, sent>>

\* The requests a goroutine makes: the first goroutine any of them, the
\* other the one request of a loop that asks with a tool to use freely.
RepeatedRequests ==
    {[Model |-> m, Tools |-> <<LLMTool(FunctionDefinition("search"))>>,
      ToolChoice |-> AnyString("auto")] : m \in RequestModels}

MessageRequestsOf(g) == IF g = "g1" THEN MessageRequests ELSE RepeatedRequests

\* c.CreateMessage(ctx, r) begins in goroutine g on client i: it returns on
\* a validation error, else goes through createMessage into do.
CreateMessageCall(g, i) ==
    /\ Ready(g)
    /\ \E r \in MessageRequestsOf(g) :
          \E v \in {CreateMessage(r)} :
              IF v.err.kind # "nil"
              THEN /\ calls' = [calls EXCEPT ![g] =
                            [pc |-> "returned", op |-> "CreateMessage", client |-> i,
                             r |-> r, calls |-> <<>>, result |-> NilResult,
                             err |-> v.err, at |-> v.at]]
                   /\ UNCHANGED <<clients, constructed, sent>>
              ELSE Enter(g, [pc |-> "enter", op |-> "CreateMessage", client |-> i,
                             r |-> r, at |-> v.at, path |-> "/messages",
                             payload |-> MarshalPayload(v.payload), req |-> <<>>])

\* c.CreateCompletion(ctx, r) begins in goroutine g on client i.
CreateCompletionCall(g, i) ==
    /\ Ready(g)
    /\ \E r \in CompletionRequests :
          \E v \in {CreateCompletion(r)} :
              Enter(g, [pc |-> "enter", op |-> "CreateCompletion", client |-> i,
                        r |-> r, at |-> v.at, path |-> "/complete",
                        payload |-> MarshalPayload(v.payload), req |-> <<>>])

\* c.do(ctx, path, payloadBytes) begins in goroutine g on client i.
DoCall(g, i) ==
    /\ Ready(g)
    /\ \E path \in Paths, payloadBytes \in Payloads :
          Enter(g, [pc |-> "enter", op |-> "do", client |-> i, path |-> path,
                    payload |-> payloadBytes, req |-> <<>>])

\* Line 254 in goroutine g: c.baseURL = DefaultBaseURL.
DoWrite(g) ==
    /\ At(g, "write")
    /\ clients' = [clients EXCEPT ![calls[g].client].baseURL = DefaultBaseURL]
    /\ calls' = [calls EXCEPT ![g].pc = "concat"]
    /\ UNCHANGED <<constructed, sent>>

\* Line 257 onward in goroutine g, which wrote c.baseURL or found it set:
\* url = c.baseURL + path, and the request is sent.  Concatenating a torn
\* string faults.
DoConcat(g) ==
    /\ At(g, "concat")
    /\ \E v \in ReadBaseURL(g, calls[g].client, TRUE) :
          IF v = Torn
          THEN /\ calls' = [calls EXCEPT ![g].pc = "fault"]
               /\ UNCHANGED <<clients, constructed, sent>>
          ELSE Send(g, calls[g], v \o calls[g].path)

\* The answers of the Doer to the requests of the call f.
OutcomesOf(f) == IF f.op = "do" THEN DoOutcomes ELSE DoerOutcomes

\* c.httpClient.Do answers in goroutine g (line 271), and the call returns.
DoReturn(g) ==
    /\ At(g, "wait")
    /\ \E o \in OutcomesOf(calls[g]) :
          \E d \in {doReturn(o)} :
              calls' = [calls EXCEPT ![g] = Return(calls[g], calls[g].req, d.resp, d.err)]
    /\ UNCHANGED <<clients, constructed, sent>>

\* c.decodeError(resp) in goroutine g.
DecodeErrorCall(g) ==
    /\ Ready(g)
    /\ \E resp \in ErrorResponses :
          calls' = [calls EXCEPT ![g] =
                       [pc |-> "returned", op |-> "decodeError", resp |-> resp,
                        err |-> decodeError(resp)]]
    /\ UNCHANGED <<clients, constructed, sent>>

\* The clients of the specification that follows one client: one token,
\* model and region, no API version, every base URL and project.
SingleClients ==
    {NewClient("sk-ant-key", "claude-3-haiku", b, p, "us-central1", "") :
        b \in BaseURLArgs, p \in ProjectIDs}

\* One client, constructed by New, shared by the goroutines.
Init ==
    /\ InitWith({1}, Goroutines)
    /\ clients[1] \in SingleClients

\* The exported calls on the client, and their steps.
Next ==
    \/ \E g \in DOMAIN calls, i \in DOMAIN clients : CreateMessageCall(g, i)
    \/ \E g \in DOMAIN calls, i \in DOMAIN clients : CreateCompletionCall(g, i)
    \/ \E g \in DOMAIN calls : DoWrite(g)
    \/ \E g \in DOMAIN calls : DoConcat(g)
    \/ \E g \in DOMAIN calls : DoReturn(g)

Spec == Init /\ [][Next]_vars

\* Two clients of one process, used by its goroutines through do: clients
\* of one model and region, the second being the first constructed again
\* with a base URL and an API version of its own.
InitPair ==
    /\ InitWith({1, 2}, Goroutines)
    /\ clients[1].Model = "claude-3-haiku"
    /\ clients[1].vertexLocation = "us-central1"
    /\ clients[1].token = clients[2].token
    /\ clients[1].Model = clients[2].Model
    /\ clients[1].vertexProjectID = clients[2].vertexProjectID
    /\ clients[1].vertexLocation = clients[2].vertexLocation

NextPair ==
    \/ \E g \in DOMAIN calls, i \in DOMAIN clients : DoCall(g, i)
    \/ \E g \in DOMAIN calls : DoWrite(g)
    \/ \E g \in DOMAIN calls : DoConcat(g)
    \/ \E g \in DOMAIN calls : DoReturn(g)

SpecPair == InitPair /\ [][NextPair]_vars

\* decodeError applied to the failed responses.
InitDecode ==
    /\ InitWith({1}, {"g1"})
    /\ clients[1] \in SingleClients

NextDecode == \E g \in DOMAIN calls : DecodeErrorCall(g)

SpecDecode == InitDecode /\ [][NextDecode]_vars

----------------------------------------------------------------------------
(* Properties                                                              *)

\* The goroutine's call of op has returned.
Returned(g, op) == calls[g].pc = "returned" /\ calls[g].op = op

\* The goroutine has begun a call of op and not begun another since.
Called(g, op) == calls[g].pc # "idle" /\ calls[g].op = op

HasNilTool(tools) == \E k \in 1..Len(tools) : tools[k].Function.isNil

IsNilFunctionError(err) ==
    err.kind = "errorString" /\ err.msg = "tool choice function is nil"

\* C1: a CreateMessage call whose Tools list holds an entry with a nil
\* function, at any position, returns a non-nil error and a nil result, and
\* the Doer receives no request during the call: the call is never found
\* inside do.
C1_NilToolRejected ==
    \A g \in DOMAIN calls :
        (Called(g, "CreateMessage") /\ HasNilTool(calls[g].r.Tools)) =>
            /\ calls[g].pc = "returned"
            /\ calls[g].err.kind # "nil"
            /\ calls[g].result.isNil
            /\ calls[g].calls = <<>>

\* A call whose second tool is the one without a function, under a tool
\* choice that passes, has been rejected by handleTools while the call of
\* another goroutine is inside do.
C1_Witness ==
    \E g, h \in DOMAIN calls :
        /\ Returned(g, "CreateMessage")
        /\ calls[g].r.ToolChoice.dyn = "string"
        /\ Len(calls[g].r.Tools) = 2
        /\ ~calls[g].r.Tools[1].Function.isNil
        /\ calls[g].r.Tools[2].Function.isNil
        /\ calls[g].at = "handleTools"
        /\ calls[g].err.kind # "nil"
        /\ calls[h].pc = "wait"

\* C2: a CreateMessage call whose ToolChoice is an llms.Tool without a
\* function fails with the validation error, returns no result and sends
\* nothing: it is never found inside do; under a ToolChoice that is a
\* string or absent the call never returns from the tool choice step.
C2_NamedToolChoiceNeedsFunction ==
    \A g \in DOMAIN calls :
        Called(g, "CreateMessage") =>
            /\ (/\ calls[g].r.ToolChoice.dyn = "llms.Tool"
                /\ calls[g].r.ToolChoice.tool.Function.isNil) =>
                  /\ calls[g].pc = "returned"
                  /\ IsNilFunctionError(calls[g].err)
                  /\ calls[g].at = "handleToolChoice"
                  /\ calls[g].result.isNil
                  /\ calls[g].calls = <<>>
            /\ (calls[g].r.ToolChoice.dyn \in {"string", "nil"}) =>
                  calls[g].at # "handleToolChoice"

\* A call with well-formed tools and a named tool choice without a function
\* has been rejected.
C2_Witness ==
    \E g \in DOMAIN calls :
        /\ Returned(g, "CreateMessage")
        /\ calls[g].r.ToolChoice.dyn = "llms.Tool"
        /\ calls[g].r.ToolChoice.tool.Function.isNil
        /\ Len(calls[g].r.Tools) = 1
        /\ ~HasNilTool(calls[g].r.Tools)
        /\ IsNilFunctionError(calls[g].err)

\* The response decodeError was given carries an error envelope with
\* message m and type t, read to its end.
IsEnvelopeOf(resp, m, t) ==
    /\ ~resp.readErr
    /\ resp.Body \in {Envelope(m, t), TaggedEnvelope(m, t)}

\* C3: for a response whose body is the error envelope with message m and
\* type t, decodeError returns an LLMError with the response's status code,
\* ErrorType t, ErrorMessage m and RawResponse the body as read.
C3_StructuredProviderError ==
    \A g \in DOMAIN calls :
        Returned(g, "decodeError") =>
            \A m \in ProviderMessages, t \in ProviderTypes :
                IsEnvelopeOf(calls[g].resp, m, t) =>
                    /\ calls[g].err.kind = "LLMError"
                    /\ calls[g].err.StatusCode = calls[g].resp.StatusCode
                    /\ calls[g].err.ErrorType = t
                    /\ calls[g].err.ErrorMessage = m
                    /\ calls[g].err.RawResponse = calls[g].resp.Body

\* The 429 rate-limit response has been decoded.
C3_Witness ==
    \E g \in DOMAIN calls :
        /\ Returned(g, "decodeError")
        /\ calls[g].resp.StatusCode = 429
        /\ calls[g].resp.Body = Envelope("rate limited", "rate_limit_error")
        /\ calls[g].err.kind = "LLMError"
        /\ calls[g].err.ErrorType = "rate_limit_error"

\* C4 as stated: the composed message of the error is
\* "unexpected status code: <code>: <provider message>".
C4_MessageAsStated ==
    \A g \in DOMAIN calls :
        Returned(g, "decodeError") =>
            \A m \in ProviderMessages, t \in ProviderTypes :
                IsEnvelopeOf(calls[g].resp, m, t) =>
                    ErrorText(calls[g].err) =
                        "unexpected status code: " \o
                        ToString(calls[g].resp.StatusCode) \o ": " \o m

\* C4, amended: for a response with a parseable error envelope the composed
\* message of the error is
\* "API returned unexpected status code: <code>: <provider message>".
C4_ComposedMessage ==
    \A g \in DOMAIN calls :
        Returned(g, "decodeError") =>
            \A m \in ProviderMessages, t \in ProviderTypes :
                IsEnvelopeOf(calls[g].resp, m, t) =>
                    /\ calls[g].err.kind = "LLMError"
                    /\ ErrorText(calls[g].err) =
                          "API returned unexpected status code: " \o
                          ToString(calls[g].resp.StatusCode) \o ": " \o m

\* The 529 overloaded response, in the provider's tagged form, has been
\* decoded.
C4_Witness ==
    \E g \in DOMAIN calls :
        /\ Returned(g, "decodeError")
        /\ calls[g].resp.Body = TaggedEnvelope("Overloaded", "overloaded_error")
        /\ calls[g].resp.StatusCode = 529
        /\ ErrorText(calls[g].err) = "API returned unexpected status code: 529: Overloaded"

\* The URL of the delegated mode, from region, project and model.
PredictURL(region, project, model) ==
    "https://" \o region \o "-aiplatform.googleapis.com/v1/projects/" \o project \o
    "/locations/" \o region \o "/publishers/anthropic/models/" \o model \o
    ":streamRawPredict"

Delegated(i) == constructed[i].vertexProjectID # ""
HasSent(i) == sent[i] # <<>>
Request(i) == sent[i][1].req

\* C5: a client with a project identifier requests the predict URL built
\* from its region, project and model, whatever its path and base URL, and
\* its base URL field stays as constructed and no call on it is found at a
\* statement that reads or writes the field; two such clients that differ
\* in base URL or path request the same URL.
C5_DelegatedURL ==
    /\ \A i \in DOMAIN clients :
          Delegated(i) =>
              /\ clients[i].baseURL = constructed[i].baseURL
              /\ \A g \in DOMAIN calls :
                    (calls[g].pc # "idle" /\ calls[g].client = i) =>
                        calls[g].pc \in {"wait", "returned"}
              /\ HasSent(i) =>
                    Request(i).URL =
                        PredictURL(constructed[i].vertexLocation,
                                   constructed[i].vertexProjectID, constructed[i].Model)
    /\ \A i, j \in DOMAIN clients :
          (/\ Delegated(i) /\ Delegated(j) /\ HasSent(i) /\ HasSent(j)
           /\ constructed[i].vertexProjectID = constructed[j].vertexProjectID
           /\ constructed[i].vertexLocation = constructed[j].vertexLocation
           /\ constructed[i].Model = constructed[j].Model)
          => Request(i).URL = Request(j).URL

\* Two delegated clients, one without a base URL and one with a proxy, have
\* sent to different paths, and two calls on the first are waiting for
\* their answers at the same time.
C5_Witness ==
    /\ DOMAIN clients = {1, 2}
    /\ Delegated(1) /\ Delegated(2)
    /\ constructed[1].baseURL = "" /\ constructed[2].baseURL # ""
    /\ HasSent(1) /\ HasSent(2)
    /\ sent[1][1].path # sent[2][1].path
    /\ Request(1).URL = Request(2).URL
    /\ \A g \in DOMAIN calls : calls[g].pc = "wait" /\ calls[g].client = 1

\* C6 as stated: every field of every client is as New left it.
C6_ConfigNeverWritten == clients = constructed

\* The header names other than the API version's.
OtherHeaders(h) == (DOMAIN h) \ {CanonicalHeaderKey("anthropic-version")}

OnlyVersionDiffers(i, j) ==
    [constructed[i] EXCEPT !.anthropicVersion = constructed[j].anthropicVersion]
        = constructed[j]

\* C7: two clients constructed alike but for the API version send, for the
\* same path and payload, the same URL and the same headers apart from
\* anthropic-version.
C7_VersionChangesOnlyItsHeader ==
    \A i, j \in DOMAIN clients :
        (/\ HasSent(i) /\ HasSent(j)
         /\ OnlyVersionDiffers(i, j)
         /\ sent[i][1].path = sent[j][1].path
         /\ Request(i).Body = Request(j).Body)
        => /\ Request(i).URL = Request(j).URL
           /\ OtherHeaders(Request(i).Header) = OtherHeaders(Request(j).Header)
           /\ \A k \in OtherHeaders(Request(i).Header) :
                 Request(i).Header[k] = Request(j).Header[k]
           /\ HeaderGet(Request(i).Header, "Content-Type") = "application/json"

\* Two clients with different API versions and no base URL have sent to the
\* same path, the first while two calls on it overlapped, and their version
\* headers differ.
C7_Witness ==
    /\ DOMAIN clients = {1, 2}
    /\ OnlyVersionDiffers(1, 2)
    /\ constructed[1].anthropicVersion # constructed[2].anthropicVersion
    /\ constructed[1].vertexProjectID = "" /\ constructed[1].baseURL = ""
    /\ HasSent(1) /\ HasSent(2)
    /\ sent[1][1].path = sent[2][1].path
    /\ \E g, h \in DOMAIN calls :
          /\ g # h
          /\ calls[g].pc = "wait" /\ calls[g].client = 1
          /\ calls[h].pc = "concat" /\ calls[h].client = 1
    /\ HeaderGet(Request(1).Header, "anthropic-version") #
       HeaderGet(Request(2).Header, "anthropic-version")

\* C8: a request sent carries one authentication header: with a project
\* identifier "Authorization: Bearer <token>" and no x-api-key, without one
\* x-api-key with the token and no Authorization.
C8_OneAuthHeaderByMode ==
    \A i \in DOMAIN clients :
        HasSent(i) =>
            LET h == Request(i).Header
                c == constructed[i]
            IN  /\ c.vertexProjectID # "" =>
                      /\ HeaderHas(h, "Authorization")
                      /\ HeaderGet(h, "Authorization") = "Bearer " \o c.token
                      /\ ~HeaderHas(h, "x-api-key")
                /\ c.vertexProjectID = "" =>
                      /\ HeaderHas(h, "x-api-key")
                      /\ HeaderGet(h, "x-api-key") = c.token
                      /\ ~HeaderHas(h, "Authorization")

\* A delegated client has sent its token as a bearer token.
C8_Witness ==
    \E i \in DOMAIN clients :
        /\ HasSent(i)
        /\ constructed[i].vertexProjectID # ""
        /\ HeaderGet(Request(i).Header, "Authorization") = "Bearer ya29.token"

\* C9: a request sent carries an anthropic-version header: the configured
\* version when there is one, else "vertex-2023-10-16" with a project
\* identifier, else DefaultAnthropicVersion; it is never missing or empty.
C9_VersionPrecedence ==
    \A i \in DOMAIN clients :
        HasSent(i) =>
            LET h == Request(i).Header
                c == constructed[i]
            IN  /\ HeaderHas(h, "anthropic-version")
                /\ HeaderGet(h, "anthropic-version") # ""
                /\ HeaderGet(h, "anthropic-version") =
                      IF c.anthropicVersion # "" THEN c.anthropicVersion
                      ELSE IF c.vertexProjectID # "" THEN "vertex-2023-10-16"
                      ELSE DefaultAnthropicVersion

\* A direct client without a configured version has sent the default
\* version.
C9_Witness ==
    \E i \in DOMAIN clients :
        /\ HasSent(i)
        /\ constructed[i].vertexProjectID = ""
        /\ constructed[i].anthropicVersion = ""
        /\ HeaderGet(Request(i).Header, "anthropic-version") = DefaultAnthropicVersion

\* C10: for a response whose body is not JSON, decodeError returns a plain
\* error whose only content is the message with the status code, without
\* raw body, type or provider message; an LLMError is returned only for a
\* body that is JSON.
C10_DegradedError ==
    \A g \in DOMAIN calls :
        Returned(g, "decodeError") =>
            /\ (~calls[g].resp.readErr /\ calls[g].resp.Body \in NotJSONBodies) =>
                  /\ calls[g].err.kind = "errorString"
                  /\ DOMAIN calls[g].err = {"kind", "msg"}
                  /\ ErrorText(calls[g].err) =
                        "API returned unexpected status code: " \o
                        ToString(calls[g].resp.StatusCode)
            /\ calls[g].err.kind = "LLMError" =>
                  /\ ~calls[g].resp.readErr
                  /\ calls[g].resp.Body \notin NotJSONBodies

\* An HTML body has been decoded to the plain error.
C10_Witness ==
    \E g \in DOMAIN calls :
        /\ Returned(g, "decodeError")
        /\ calls[g].resp.StatusCode = 400
        /\ calls[g].resp.Body = <<Junk("<html>Bad Gateway</html>")>>
        /\ calls[g].err.kind = "errorString"
        /\ calls[g].err.msg = "API returned unexpected status code: 400"

====
